---- MODULE Spec2Model ----
(***************************************************************************)
(* Model of the manim-scroll render orchestrator (src/render/cli.py) and   *)
(* of the text scene template (src/render/templates/text_scene.py).        *)
(*                                                                         *)
(* Strings are sequences of one-character strings, so that splitting,      *)
(* integer conversion and lexicographic comparison are computed character  *)
(* by character as Python computes them.  Lengths measured by the scene    *)
(* (text width, height, padding) are integers counting tenths of a Manim   *)
(* unit, so the default padding 0.1 is 1; a ratio is a reduced fraction    *)
(* <<numerator, denominator>>.  An Optional value is a sequence of length  *)
(* 0 (None) or 1.  A dict is a function whose domain is its set of keys.   *)
(***************************************************************************)
EXTENDS Integers, Sequences, FiniteSets, TLC

VARIABLES
    pc,            \* position of main(): idle, frames, video, collect, done, failed
    args,          \* argparse namespace of the current run
    propsFile,     \* Optional dict: content of the props file (None: no such file)
    inline,        \* main's local `inline`
    cmds,          \* renderer invocations spawned by the current run, in order
    rcs,           \* their exit statuses, in order
    fs,            \* media files under the output directory: {[path, mtime]}
    bounds,        \* content of <output_dir>/bounds.json
    manifest,      \* Optional: what the current run wrote to manifest.json
                   \* (None: nothing, an older file stays as it is)
    exitStatus,    \* Optional: exit status of the orchestrator process
    wroteBounds,   \* the scene program wrote bounds.json during the current run
    scenePadding,  \* Optional: the padding the scene used when it wrote bounds.json
    producedFrames,\* the renderer wrote at least one frame file during the current run
    assets,        \* Optional: result of _collect_assets in the current run
    resArg,        \* the --resolution string handed to argparse
    resOut         \* what argparse made of it

vars == <<pc, args, propsFile, inline, cmds, rcs, fs, bounds, manifest,
          exitStatus, wroteBounds, scenePadding, producedFrames,
          assets, resArg, resOut>>

mainVars == <<pc, args, propsFile, inline, cmds, rcs, bounds, manifest,
              exitStatus, wroteBounds, scenePadding, producedFrames>>

parseVars == <<resArg, resOut>>

-----------------------------------------------------------------------------
(* Bounds of the model *)

\* longest --resolution string tried
MaxResLen == 4
\* latest modification time the renderer's files get
MaxClock == 2
\* largest modification time of a file in the trees handed to discovery alone
MaxMtime == 3
\* largest measured text width and height, in tenths of a unit
MaxDim == 1
\* largest padding a props file asks for, in tenths of a unit
MaxPad == 0

-----------------------------------------------------------------------------
(* Optional values and dicts *)

None == <<>>

Some(x) == <<x>>

\* dict.get(key, default)
Get(d, key, default) == IF key \in DOMAIN d THEN d[key] ELSE default

EmptyDict == [k \in {} |-> 0]

-----------------------------------------------------------------------------
(* Strings *)

Digits == {"0", "1", "2", "3", "4", "5", "6", "7", "8", "9"}

DigitVal == [c \in Digits |->
    CASE c = "0" -> 0 [] c = "1" -> 1 [] c = "2" -> 2 [] c = "3" -> 3
      [] c = "4" -> 4 [] c = "5" -> 5 [] c = "6" -> 6 [] c = "7" -> 7
      [] c = "8" -> 8 [] c = "9" -> 9]

\* Unicode code points of the characters that occur in the modelled paths
Ord == [c \in {".", "/", "4", "a", "b", "e", "g", "m", "n", "p", "w"} |->
    CASE c = "." -> 46 [] c = "/" -> 47 [] c = "4" -> 52 [] c = "a" -> 97
      [] c = "b" -> 98 [] c = "e" -> 101 [] c = "g" -> 103 [] c = "m" -> 109
      [] c = "n" -> 110 [] c = "p" -> 112 [] c = "w" -> 119]

\* Python's str < str: by code point, a proper prefix first
RECURSIVE StrLess(_, _)
StrLess(a, b) ==
    IF b = <<>> THEN FALSE
    ELSE IF a = <<>> THEN TRUE
    ELSE IF Ord[Head(a)] # Ord[Head(b)] THEN Ord[Head(a)] < Ord[Head(b)]
    ELSE StrLess(Tail(a), Tail(b))

\* s.find(c): index of the first c in s, 0 when there is none
RECURSIVE Find(_, _)
Find(s, c) ==
    IF s = <<>> THEN 0
    ELSE IF Head(s) = c THEN 1
    ELSE LET r == Find(Tail(s), c) IN IF r = 0 THEN 0 ELSE r + 1

\* s.split(sep, 1) for a sep that occurs in s
Split1(s, sep) ==
    LET i == Find(s, sep)
    IN  <<SubSeq(s, 1, i - 1), SubSeq(s, i + 1, Len(s))>>

RECURSIVE DecimalValue(_)
DecimalValue(s) ==
    IF s = <<>> THEN 0
    ELSE 10 * DecimalValue(SubSeq(s, 1, Len(s) - 1)) + DigitVal[s[Len(s)]]

\* int(s) on text made of digits, signs and other printable characters:
\* an optional sign and then one or more digits, else ValueError
PyInt(s) ==
    LET signed == s # <<>> /\ Head(s) \in {"-", "+"}
        body   == IF signed THEN Tail(s) ELSE s
    IN  IF body # <<>> /\ \A i \in 1..Len(body) : body[i] \in Digits
        THEN [ok |-> TRUE,
              val |-> IF signed /\ Head(s) = "-"
                      THEN 0 - DecimalValue(body) ELSE DecimalValue(body)]
        ELSE [ok |-> FALSE, val |-> 0]

EndsWith(s, suffix) ==
    /\ Len(s) >= Len(suffix)
    /\ SubSeq(s, Len(s) - Len(suffix) + 1, Len(s)) = suffix

\* all orders in which a set can be enumerated
Orders(S) ==
    {s \in [1..Cardinality(S) -> S] : \A i, j \in DOMAIN s : i # j => s[i] # s[j]}

-----------------------------------------------------------------------------
(* cli.py: _parse_resolution, as the argparse type of --resolution *)

\* A type function that raises ArgumentTypeError or ValueError makes argparse
\* reject the command line (exit status 2) before main goes on.
_parse_resolution(value) ==
    LET sep == IF Find(value, "x") # 0 THEN "x"
               ELSE IF Find(value, ",") # 0 THEN "," ELSE "none"
    IN  IF sep = "none"
        THEN [status |-> "rejected", w |-> 0, h |-> 0]
        ELSE LET parts == Split1(value, sep)
                 w == PyInt(parts[1])
                 h == PyInt(parts[2])
             IN  IF w.ok /\ h.ok
                 THEN [status |-> "ok", w |-> w.val, h |-> h.val]
                 ELSE [status |-> "rejected", w |-> 0, h |-> 0]

-----------------------------------------------------------------------------
(* The output directory and the media files that can lie under it *)

OutputDir == <<"/", "m">>

Abs(rel) == OutputDir \o <<"/">> \o rel

\* a.png, b.png, a/b.png
PngNames == {<<"a", ".", "p", "n", "g">>,
             <<"b", ".", "p", "n", "g">>,
             <<"a", "/", "b", ".", "p", "n", "g">>}

\* a.mp4, b/a.mp4, a.webm
VideoNames == {<<"a", ".", "m", "p", "4">>,
               <<"b", "/", "a", ".", "m", "p", "4">>,
               <<"a", ".", "w", "e", "b", "m">>}

MediaNames == PngNames \cup VideoNames

\* the suffixes of the three rglob patterns *.png, *.mp4, *.webm
Png == <<".", "p", "n", "g">>

Mp4 == <<".", "m", "p", "4">>

Webm == <<".", "w", "e", "b", "m">>

Paths(fsys) == {f.path : f \in fsys}

Mtime(fsys, p) == (CHOOSE f \in fsys : f.path = p).mtime

\* the files of `names` written (created or overwritten) at time t
WriteFiles(fsys, names, t) ==
    {f \in fsys : f.path \notin {Abs(n) : n \in names}}
        \cup {[path |-> Abs(n), mtime |-> t] : n \in names}

\* a tree: every file name absent (0) or present with a modification time
Tree(m) == {[path |-> Abs(n), mtime |-> m[n]] : n \in {k \in DOMAIN m : m[k] > 0}}

-----------------------------------------------------------------------------
(* cli.py: _find_latest and _collect_assets *)

\* media_dir.rglob("*" + suffix): the set it yields; the order is the caller's
rglob(fsys, media_dir, suffix) ==
    {p \in Paths(fsys) :
        /\ Len(p) > Len(media_dir) + 1
        /\ SubSeq(p, 1, Len(media_dir) + 1) = media_dir \o <<"/">>
        /\ EndsWith(p, suffix)}

\* p.relative_to(media_dir).as_posix(), for p under media_dir
relative_to(p, media_dir) == SubSeq(p, Len(media_dir) + 2, Len(p))

RECURSIVE Insert(_, _)
Insert(x, s) ==
    IF s = <<>> THEN <<x>>
    ELSE IF StrLess(x, Head(s)) THEN <<x>> \o s
    ELSE <<Head(s)>> \o Insert(x, Tail(s))

\* sorted(list of str)
RECURSIVE sorted(_)
sorted(s) == IF s = <<>> THEN <<>> ELSE Insert(Head(s), sorted(Tail(s)))

\* max(files, key=mtime): the first of the files with the greatest key
RECURSIVE MaxByMtime(_, _, _)
MaxByMtime(files, fsys, best) ==
    IF files = <<>> THEN best
    ELSE MaxByMtime(Tail(files), fsys,
                    IF Mtime(fsys, Head(files)) > Mtime(fsys, best)
                    THEN Head(files) ELSE best)

MinByMtime(files, fsys) ==
    CHOOSE p \in {files[i] : i \in DOMAIN files} :
        \A i \in DOMAIN files : Mtime(fsys, p) <= Mtime(fsys, files[i])

find_latest_oldest(files, fsys) ==
    IF files = <<>> THEN None ELSE Some(MinByMtime(files, fsys))

_find_latest(files, fsys) ==
    IF files = <<>> THEN None
    ELSE Some(MaxByMtime(Tail(files), fsys, Head(files)))

collect_assets_unsorted(fsys, media_dir, pngs, mp4s, webms) ==
    LET video == _find_latest(mp4s \o webms, fsys)
    IN  [frames |-> [i \in DOMAIN pngs |-> relative_to(pngs[i], media_dir)],
         video  |-> IF video # None
                    THEN Some(relative_to(video[1], media_dir)) ELSE None]

\* pngs, mp4s, webms: the three rglob enumerations, in the order the
\* filesystem yields them
_collect_assets(fsys, media_dir, pngs, mp4s, webms) ==
    LET frames == sorted([i \in DOMAIN pngs |-> relative_to(pngs[i], media_dir)])
        video  == _find_latest(mp4s \o webms, fsys)
    IN  [frames |-> frames,
         video  |-> IF video # None
                    THEN Some(relative_to(video[1], media_dir)) ELSE None]

-----------------------------------------------------------------------------
(* Specification of --resolution parsing alone *)

ResChars == {"0", "1", "2", "x", ",", "-"}

ResStrings == UNION {[1..n -> ResChars] : n \in 0..MaxResLen}

Pending == [status |-> "pending", w |-> 0, h |-> 0]

NoArgs == [format |-> "both", video_format |-> "mp4", transparent |-> FALSE,
           props |-> None]

MissingBounds == [state |-> "missing", data |-> EmptyDict]

\* the state of everything main() works on, before any run
InitMain ==
    /\ pc = "idle"
    /\ args = NoArgs
    /\ propsFile = None
    /\ inline = FALSE
    /\ cmds = <<>>
    /\ rcs = <<>>
    /\ manifest = None
    /\ exitStatus = None
    /\ wroteBounds = FALSE
    /\ scenePadding = None
    /\ producedFrames = FALSE

InitParse ==
    /\ InitMain
    /\ bounds = MissingBounds
    /\ fs = {}
    /\ assets = None
    /\ resArg \in ResStrings
    /\ resOut = Pending

ParseResolution ==
    /\ resOut.status = "pending"
    /\ resOut' = _parse_resolution(resArg)
    /\ UNCHANGED <<mainVars, fs, assets, resArg>>

NextParse == ParseResolution

SpecParse == InitParse /\ [][NextParse]_vars

-----------------------------------------------------------------------------
(* Specification of asset discovery alone, on arbitrary trees *)

InitAssets ==
    /\ InitMain
    /\ bounds = MissingBounds
    /\ \E m \in [MediaNames -> 0..MaxMtime] : fs = Tree(m)
    /\ assets = None
    /\ resArg = <<>>
    /\ resOut = Pending

CollectAssets ==
    /\ \E pngs \in Orders(rglob(fs, OutputDir, Png)),
          mp4s \in Orders(rglob(fs, OutputDir, Mp4)),
          webms \in Orders(rglob(fs, OutputDir, Webm)) :
            assets' = Some(_collect_assets(fs, OutputDir, pngs, mp4s, webms))
    /\ UNCHANGED <<mainVars, fs, parseVars>>

NextAssets == CollectAssets

SpecAssets == InitAssets /\ [][NextAssets]_vars

-----------------------------------------------------------------------------
(* text_scene.py: the scene program, run inside the renderer process *)

RECURSIVE GCD(_, _)
GCD(a, b) == IF b = 0 THEN a ELSE GCD(b, a % b)

\* n / d for d > 0 and n >= 0, as a reduced fraction
Ratio(n, d) == LET g == GCD(n, d) IN <<n \div g, d \div g>>

One == <<1, 1>>

Exists(file) == file # None

\* _load_props(): the dict of the file MANIM_SCROLL_PROPS names, {} without one
_load_props(env, file) ==
    IF env.MANIM_SCROLL_PROPS = None THEN EmptyDict
    ELSE IF ~Exists(file) THEN EmptyDict
    ELSE file[1]

\* _write_bounds_info: the content written, None when nothing is written
_write_bounds_info(width, height, aspect_ratio, props, env) ==
    IF env.MANIM_SCROLL_BOUNDS_OUT = None THEN None
    ELSE Some([state |-> "object",
               data  |-> [textWidth   |-> width,
                          textHeight  |-> height,
                          aspectRatio |-> aspect_ratio,
                          inline      |-> Get(props, "inline", FALSE),
                          padding     |-> Get(props, "padding", 0)]])

\* TextScene.construct, for a text laid out text_width by text_height:
\* what it writes to the bounds path (None: nothing) and the padding it used
construct(env, file, text_width, text_height) ==
    LET props   == _load_props(env, file)
        inl     == Get(props, "inline", FALSE)
        padding == Get(props, "padding", 1)
        padded_width  == text_width + padding * 2
        padded_height == text_height + padding * 2
        aspect_ratio  == IF padded_height > 0
                         THEN Ratio(padded_width, padded_height) ELSE One
    IN  IF inl
        THEN [written |-> _write_bounds_info(text_width, text_height,
                                             aspect_ratio, props, env),
              padding |-> Some(padding)]
        ELSE [written |-> None, padding |-> None]

-----------------------------------------------------------------------------
(* cli.py: main *)

\* _load_props_file(args.props)
_load_props_file(props_path, file) ==
    IF props_path = None THEN EmptyDict
    ELSE IF ~Exists(file) THEN EmptyDict
    ELSE file[1]

\* _run_manim without the check of returncode
run_manim_unchecked(returncode) == "return"

\* _run_manim's verdict on the child's exit status
_run_manim(returncode) == IF returncode # 0 THEN "raise" ELSE "return"

Transparent(inl, a) == inl \/ a.transparent

\* the environment handed to every renderer invocation
Env(a) == [MANIM_SCROLL_PROPS      |-> a.props,
           MANIM_SCROLL_BOUNDS_OUT |-> Some("bounds.json")]

FrameCmd(inl, a) ==
    [transparent |-> Transparent(inl, a), write_all |-> TRUE, format |-> "png"]

\* the video format without the override for transparency
video_format_as_selected(inl, a) == a.video_format

video_format(inl, a) ==
    IF Transparent(inl, a) THEN "webm" ELSE a.video_format

VideoCmd(inl, a) ==
    [transparent |-> Transparent(inl, a), write_all |-> FALSE,
     format |-> video_format(inl, a)]

\* the read-back asking for a key the scene program does not write
ReadAspectRatio_other_key(b) ==
    IF b.state = "object" /\ "aspect_ratio" \in DOMAIN b.data
    THEN Some(b.data["aspect_ratio"]) ELSE None

\* lines 133-139: the aspect ratio main reads back from bounds.json
ReadAspectRatio(b) ==
    IF b.state = "missing" THEN None          \* bounds_path.exists() is false
    ELSE IF b.state = "garbage" THEN None     \* json.loads raises, caught
    ELSE IF b.state = "nonobject" THEN None   \* .get raises, caught
    ELSE IF "aspectRatio" \in DOMAIN b.data
         THEN Some(b.data["aspectRatio"]) ELSE None

Formats == {"frames", "video", "both"}

VideoFormats == {"mp4", "webm"}

PropsPath == Some("props.json")

\* the props objects tried: any of the keys inline and padding, or neither
PropsObjects ==
    {EmptyDict}
        \cup {[k \in {"inline"} |-> b] : b \in BOOLEAN}
        \cup {[k \in {"padding"} |-> p] : p \in 0..MaxPad}
        \cup {[k \in {"inline", "padding"} |-> IF k = "inline" THEN b ELSE p] :
                b \in BOOLEAN, p \in 0..MaxPad}

ArgsSet == [format : Formats, video_format : VideoFormats,
            transparent : BOOLEAN, props : {None, PropsPath}]

\* what bounds.json can hold before the first run: nothing, or something
\* that is no bounds object of the scene program
ForeignBounds ==
    {MissingBounds,
     [state |-> "garbage", data |-> EmptyDict],
     [state |-> "nonobject", data |-> EmptyDict],
     [state |-> "object", data |-> EmptyDict]}

Init ==
    /\ InitMain
    /\ bounds \in ForeignBounds
    /\ fs = {}
    /\ assets = None
    /\ resArg = <<>>
    /\ resOut = Pending

\* lines 87-120: a new orchestrator process parses its arguments, creates the
\* output directory if need be, loads the props and builds the command and
\* the environment.  The props file, when there is one, holds a JSON object
\* whose inline value is a boolean.
StartRun ==
    /\ pc = "idle"
    /\ \E a \in ArgsSet, file \in {None} \cup {Some(d) : d \in PropsObjects} :
        /\ a.props = None => file = None
        /\ args' = a
        /\ propsFile' = file
        /\ inline' = (Get(_load_props_file(a.props, file), "inline", FALSE)
                        \/ a.transparent)
        /\ pc' = IF a.format \in {"frames", "both"} THEN "frames" ELSE "video"
    /\ UNCHANGED <<cmds, rcs, exitStatus, wroteBounds, scenePadding,
                   producedFrames, manifest, assets, fs, bounds, parseVars>>

\* One renderer invocation: the child runs the scene program (always, when it
\* exits with status 0), writes the files `names` and exits with `rc`;
\* _run_manim then returns or raises, and an uncaught exception ends the
\* process with status 1.
Invoke(cmd, names, rc, ran, w, h, t, nextpc) ==
    LET scene == construct(Env(args), propsFile, w, h)
        wrote == ran /\ scene.written # None
    IN  /\ cmds' = Append(cmds, cmd)
        /\ rcs' = Append(rcs, rc)
        /\ fs' = WriteFiles(fs, names, t)
        /\ bounds' = IF wrote THEN scene.written[1] ELSE bounds
        /\ wroteBounds' = (wroteBounds \/ wrote)
        /\ scenePadding' = IF wrote THEN scene.padding ELSE scenePadding
        /\ IF _run_manim(rc) = "raise"
           THEN pc' = "failed" /\ exitStatus' = Some(1)
           ELSE pc' = nextpc /\ exitStatus' = exitStatus

ExitCodes == {0, 2}

\* the frame files one invocation writes: none, or the frame sequence
\* a.png, b.png
FrameOutputs == {{}, {<<"a">> \o Png, <<"b">> \o Png}}

\* the video file of an invocation: a.mp4 or a.webm
VideoOutput(format) == <<"a">> \o (IF format = "webm" THEN Webm ELSE Mp4)

\* The modification time of a video file written now: no earlier than that
\* of any file already there.  Only _find_latest reads modification times,
\* and only those of video files: those of frame files are kept at 0.
Times == {t \in 1..MaxClock : \A f \in fs : f.mtime <= t}

\* the text sizes <<width, height>> the layout can give: some width, and any
\* height down to none; only an inline scene measures them
Layouts(a, file) ==
    IF Get(_load_props(Env(a), file), "inline", FALSE)
    THEN (1..MaxDim) \X (0..MaxDim) ELSE {<<0, 0>>}

\* lines 122-123
RunFrames ==
    /\ pc = "frames"
    /\ \E names \in FrameOutputs, rc \in ExitCodes, ran \in BOOLEAN,
          wh \in Layouts(args, propsFile) :
        /\ rc = 0 => ran
        /\ Invoke(FrameCmd(inline, args), names, rc, ran, wh[1], wh[2], 0,
                  IF args.format \in {"video", "both"} THEN "video" ELSE "collect")
        /\ producedFrames' = (producedFrames \/ names # {})
    /\ UNCHANGED <<args, propsFile, inline, manifest, assets, parseVars>>

\* lines 125-128
RunVideo ==
    /\ pc = "video"
    /\ LET cmd == VideoCmd(inline, args)
       IN  \E names \in {{}, {VideoOutput(cmd.format)}},
              rc \in ExitCodes, ran \in BOOLEAN,
              wh \in Layouts(args, propsFile), t \in Times :
            /\ rc = 0 => ran
            /\ Invoke(cmd, names, rc, ran, wh[1], wh[2], t, "collect")
    /\ UNCHANGED <<args, propsFile, inline, manifest, producedFrames, assets,
                   parseVars>>

\* lines 130-156: discovery, the bounds read-back, the manifest, return 0.
\* The manifest's scene, fps, width and height are copied from the arguments
\* and are left out.
CollectAndWrite ==
    /\ pc = "collect"
    /\ \E pngs \in Orders(rglob(fs, OutputDir, Png)),
          mp4s \in Orders(rglob(fs, OutputDir, Mp4)),
          webms \in Orders(rglob(fs, OutputDir, Webm)) :
        LET found == _collect_assets(fs, OutputDir, pngs, mp4s, webms)
        IN  /\ assets' = Some(found)
            /\ manifest' = Some([frames      |-> found.frames,
                                 video       |-> found.video,
                                 transparent |-> Transparent(inline, args),
                                 inline      |-> inline,
                                 aspectRatio |-> ReadAspectRatio(bounds)])
    /\ exitStatus' = Some(0)
    /\ pc' = "done"
    /\ UNCHANGED <<args, propsFile, inline, cmds, rcs, fs, bounds,
                   wroteBounds, scenePadding, producedFrames, parseVars>>

\* the process has ended (line 160, or the uncaught exception): its locals
\* are gone, the files stay
Exit ==
    /\ pc \in {"done", "failed"}
    /\ pc' = "idle"
    /\ args' = NoArgs
    /\ propsFile' = None
    /\ inline' = FALSE
    /\ cmds' = <<>>
    /\ rcs' = <<>>
    /\ manifest' = None
    /\ exitStatus' = None
    /\ wroteBounds' = FALSE
    /\ scenePadding' = None
    /\ producedFrames' = FALSE
    /\ assets' = None
    /\ UNCHANGED <<fs, bounds, parseVars>>

Next == StartRun \/ RunFrames \/ RunVideo \/ CollectAndWrite \/ Exit

Spec == Init /\ [][Next]_vars

-----------------------------------------------------------------------------
(* Properties of main's runs, under Spec *)

\* the number of renderer invocations a run asks for
Requested(format) == IF format = "both" THEN 2 ELSE 1

VideoFiles(fsys) == {f \in fsys : EndsWith(f.path, Mp4) \/ EndsWith(f.path, Webm)}

\* C1: a renderer invocation that exits with a non-zero status is the last
\* invocation of its run, the run writes no manifest.json, and the process
\* ends with a non-zero exit status.
C1_RenderFailureAborts ==
    /\ Len(cmds) = Len(rcs)
    /\ \A i \in DOMAIN rcs : rcs[i] # 0 =>
        /\ i = Len(rcs)
        /\ pc = "failed"
        /\ manifest = None
        /\ exitStatus # None
        /\ exitStatus[1] # 0

\* C1 witness: in a run asked for both outputs the frame invocation failed,
\* and no video invocation followed.
C1_Witness ==
    /\ pc = "failed"
    /\ args.format = "both"
    /\ rcs = <<2>>
    /\ Len(cmds) = 1

AllSucceeded ==
    /\ pc # "idle"
    /\ Len(rcs) = Requested(args.format)
    /\ \A i \in DOMAIN rcs : rcs[i] = 0

\* C2: once every requested invocation has exited with status 0 the run
\* goes on to write the manifest and return 0 whatever bounds.json holds;
\* the manifest's aspectRatio is the aspectRatio of a bounds.json that is an
\* object with that key, and None when the file is missing, unparseable, no
\* object, or an object without the key.
C2_BoundsNeverAbort ==
    /\ AllSucceeded => pc \in {"collect", "done"}
    /\ pc = "collect" => ENABLED CollectAndWrite
    /\ pc = "done" =>
        /\ manifest # None
        /\ exitStatus = Some(0)
        /\ manifest[1].aspectRatio =
              IF bounds.state = "object" /\ "aspectRatio" \in DOMAIN bounds.data
              THEN Some(bounds.data["aspectRatio"]) ELSE None

\* C2 witness: a run that ended with status 0 read a bounds.json written by
\* the scene program and recorded its aspect ratio.
C2_Witness ==
    /\ pc = "done"
    /\ bounds.state = "object"
    /\ "aspectRatio" \in DOMAIN bounds.data
    /\ manifest[1].aspectRatio = Some(bounds.data["aspectRatio"])

\* C3: in every manifest written, frames is empty exactly when the run did
\* not ask for frames or the renderer produced no frame file, and video is
\* None unless the run asked for video and a candidate video file exists.
C3_ManifestMatchesRequest ==
    pc = "done" =>
        /\ (manifest[1].frames = <<>>)
              <=> (args.format = "video" \/ ~producedFrames)
        /\ manifest[1].video # None =>
              (args.format \in {"video", "both"} /\ VideoFiles(fs) # {})

\* C4: the scene program writes the bounds file exactly in the runs the
\* orchestrator records as inline (inline prop set, or transparency flag).
C4_BoundsWrittenIffInline ==
    pc = "done" => (wroteBounds <=> manifest[1].inline)

PropsRequestInline ==
    /\ args.props # None
    /\ propsFile # None
    /\ "inline" \in DOMAIN propsFile[1]
    /\ propsFile[1]["inline"]

TransparencyRequested == args.transparent \/ PropsRequestInline

\* C5: with the transparency flag or an inline request in the props, every
\* invocation carries the transparency directive, the video invocation uses
\* webm and the manifest has transparent = true; with neither, no invocation
\* carries it, the video invocation uses the selected format and the
\* manifest has transparent = false and inline = false.
C5_TransparencyDirective ==
    /\ \A i \in DOMAIN cmds :
        /\ cmds[i].transparent = TransparencyRequested
        /\ cmds[i].format # "png" =>
              cmds[i].format = IF TransparencyRequested THEN "webm"
                               ELSE args.video_format
    /\ pc = "done" =>
        /\ manifest[1].transparent = TransparencyRequested
        /\ ~TransparencyRequested => manifest[1].inline = FALSE

\* C5 witness: a finished run for both outputs with the transparency flag
\* and mp4 selected, whose video invocation used webm.
C5_Witness ==
    /\ pc = "done"
    /\ args.format = "both"
    /\ args.transparent
    /\ args.video_format = "mp4"
    /\ Len(cmds) = 2
    /\ cmds[2].format = "webm"
    /\ cmds[1].transparent

\* C9: the aspectRatio the scene writes is the textWidth it writes divided
\* by the textHeight it writes, 1 when that height is zero, and the padding
\* it echoes is the padding it used.
C9_BoundsConsistent ==
    wroteBounds =>
        /\ bounds.data["aspectRatio"] =
              IF bounds.data["textHeight"] = 0 THEN One
              ELSE Ratio(bounds.data["textWidth"], bounds.data["textHeight"])
        /\ scenePadding = Some(bounds.data["padding"])

\* C10: a manifest's aspectRatio is set only if the scene program wrote the
\* bounds file during the same run, so a manifest with inline = false has
\* aspectRatio = None.
C10_NoStaleBounds ==
    pc = "done" =>
        /\ manifest[1].aspectRatio # None => wroteBounds
        /\ ~manifest[1].inline => manifest[1].aspectRatio = None

-----------------------------------------------------------------------------
(* Properties of asset discovery, under SpecAssets *)

PngFiles(fsys) == {f \in fsys : EndsWith(f.path, Png)}

\* C6: frame discovery returns one path for each .png file of the tree,
\* relative to the output directory, in strictly ascending order of the path
\* strings whatever the enumeration order; discovery changes no file, and a
\* second discovery returns the same frames.
C6_FrameDiscovery ==
    /\ [](assets # None =>
            LET frames == assets[1].frames
            IN  /\ Len(frames) = Cardinality(PngFiles(fs))
                /\ \A i \in DOMAIN frames : Abs(frames[i]) \in Paths(PngFiles(fs))
                /\ \A i, j \in DOMAIN frames :
                      i < j => StrLess(frames[i], frames[j]))
    /\ [][/\ fs' = fs
          /\ assets # None => assets'[1].frames = assets[1].frames]_vars

\* C6 witness: discovery ran on a tree holding all three .png files.
C6_Witness ==
    /\ assets # None
    /\ Len(assets[1].frames) = 3

DistinctMtimes(files) == \A f, g \in files : f # g => f.mtime # g.mtime

\* C7: video discovery reports None when the tree holds no .mp4 or .webm
\* file; when the candidates' modification times are pairwise distinct it
\* returns the relative path of the one candidate modified last.
C7_LatestVideo ==
    assets # None =>
        LET cands == VideoFiles(fs)
            video == assets[1].video
        IN  /\ cands = {} => video = None
            /\ (cands # {} /\ DistinctMtimes(cands)) =>
                  /\ video # None
                  /\ Abs(video[1]) \in Paths(cands)
                  /\ \A f \in cands :
                        f.path # Abs(video[1]) => f.mtime < Mtime(fs, Abs(video[1]))

\* C7 witness: three candidates with distinct modification times, and the
\* .webm file, enumerated last, was chosen.
C7_Witness ==
    /\ assets # None
    /\ Cardinality(VideoFiles(fs)) = 3
    /\ DistinctMtimes(VideoFiles(fs))
    /\ assets[1].video = Some(<<"a", ".", "w", "e", "b", "m">>)

-----------------------------------------------------------------------------
(* Properties of --resolution parsing, under SpecParse *)

AllDigits(s) == s # <<>> /\ \A i \in DOMAIN s : s[i] \in Digits

\* s is W, a separator and H, with W and H positive integers in digits
WellFormedAt(s, i) ==
    /\ s[i] \in {"x", ","}
    /\ AllDigits(SubSeq(s, 1, i - 1))
    /\ AllDigits(SubSeq(s, i + 1, Len(s)))
    /\ DecimalValue(SubSeq(s, 1, i - 1)) > 0
    /\ DecimalValue(SubSeq(s, i + 1, Len(s))) > 0

\* C8: a string WxH or W,H with W and H positive integers parses to (W, H);
\* every other string is rejected.
C8_ResolutionParsing ==
    resOut.status # "pending" =>
        IF \E i \in DOMAIN resArg : WellFormedAt(resArg, i)
        THEN \E i \in DOMAIN resArg :
                /\ WellFormedAt(resArg, i)
                /\ resOut = [status |-> "ok",
                             w |-> DecimalValue(SubSeq(resArg, 1, i - 1)),
                             h |-> DecimalValue(SubSeq(resArg, i + 1, Len(resArg)))]
        ELSE resOut.status = "rejected"

====
